---- MODULE Spec2Model ----
(***************************************************************************)
(* Model of themarket-api: the quote resolution endpoints (/price,         *)
(* /futures, /index) of server.py + core.py and of proxy.py, the generic   *)
(* forwarding endpoint /proxy and the lru_cache'd GET helper.              *)
(*                                                                         *)
(* Strings are sequences of one-character strings, so that upper(),        *)
(* lower(), startswith(), "in" and replace() are computed, not assumed.    *)
(***************************************************************************)
EXTENDS Integers, Sequences, FiniteSets, TLC

VARIABLES
    rev,          \* which application file is deployed: "server" or "proxy"
    pc,           \* position of the request handler
    endpoint,     \* route being served: "price", "futures", "index"
    raw_symbol,   \* path parameter exactly as supplied by the caller
    symbol,       \* local `symbol` after symbol.upper()
    asset_type,   \* asset class the handler tags its bodies with
    classified,   \* TRUE when asset_type came from detect_asset_type
    log,          \* provider attempts of the current resolution, in order
    response,     \* body returned by the handler
    escaped,      \* exception that left the handler ("none" if none did)
    px,           \* last /proxy call: url, method, status, outbound host
    cache,        \* lru_cache of the cached GET helper, least recent first
    hist,         \* cached GET calls made so far, in order
    prev,         \* an earlier, completed resolution kept for comparison
    rot,          \* relay rotation of the outbound call in progress
    wk            \* workers inside the cached GET helper

vars == <<rev, pc, endpoint, raw_symbol, symbol, asset_type, classified,
          log, response, escaped, px, cache, hist, prev, rot, wk>>

-----------------------------------------------------------------------------
(* Bounds *)

MaxLen == 3

MaxNetloc == 4

MaxOps == 3

-----------------------------------------------------------------------------
(* Strings *)

ucase == <<"A","B","C","D","E","F","G","H","I","J","K","L","M",
           "N","O","P","Q","R","S","T","U","V","W","X","Y","Z">>

lcase == <<"a","b","c","d","e","f","g","h","i","j","k","l","m",
           "n","o","p","q","r","s","t","u","v","w","x","y","z">>

UpperChar(c) ==
    IF \E i \in 1..Len(lcase) : lcase[i] = c
    THEN ucase[CHOOSE i \in 1..Len(lcase) : lcase[i] = c]
    ELSE c

LowerChar(c) ==
    IF \E i \in 1..Len(ucase) : ucase[i] = c
    THEN lcase[CHOOSE i \in 1..Len(ucase) : ucase[i] = c]
    ELSE c

upper_noop(s) == s

upper(s) == [i \in 1..Len(s) |-> UpperChar(s[i])]

lower(s) == [i \in 1..Len(s) |-> LowerChar(s[i])]

startswith(s, p) ==
    /\ Len(s) >= Len(p)
    /\ SubSeq(s, 1, Len(p)) = p

\* p occurs in s at position i
OccursAt(s, p, i) ==
    /\ i >= 1
    /\ i + Len(p) - 1 <= Len(s)
    /\ SubSeq(s, i, i + Len(p) - 1) = p

contains(s, p) == \E i \in 1..(Len(s) + 1) : OccursAt(s, p, i)

RECURSIVE ReplaceFrom(_, _, _)
\* str.replace(p, ""): scan left to right, dropping each non-overlapping
\* occurrence of p.
ReplaceFrom(s, p, i) ==
    IF i > Len(s) THEN <<>>
    ELSE IF OccursAt(s, p, i) THEN ReplaceFrom(s, p, i + Len(p))
    ELSE <<s[i]>> \o ReplaceFrom(s, p, i + 1)

replace_with_empty(s, p) == ReplaceFrom(s, p, 1)

Chars == {"f", "F", "^", "="}

RECURSIVE StringsUpTo(_)
StringsUpTo(n) ==
    IF n = 0 THEN {<<>>}
    ELSE LET shorter == StringsUpTo(n - 1)
         IN  shorter \cup {Append(s, c) : s \in shorter, c \in Chars}

\* A path parameter is never empty.
Symbols == StringsUpTo(MaxLen) \ {<<>>}

-----------------------------------------------------------------------------
(* core.py / proxy.py: asset type detection and Stooq symbol mapping *)

detect_asset_type_eq_first(sym) ==
    LET s == upper(sym)
    IN  IF contains(s, <<"=">>) THEN "future"
        ELSE IF startswith(s, <<"^">>) THEN "index"
        ELSE "stock"

detect_asset_type(sym) ==
    LET s == upper(sym)
    IN  IF startswith(s, <<"^">>) THEN "index"
        ELSE IF contains(s, <<"=">>) THEN "future"
        ELSE "stock"

stooq_symbol_for_stock_nolower(ticker) == ticker \o <<".", "u", "s">>

stooq_symbol_for_stock(ticker) == lower(ticker) \o <<".", "u", "s">>

stooq_symbol_for_future(sym) ==
    LET base == lower(replace_with_empty(upper(sym), <<"=", "F">>))
    IN  base \o <<".", "f">>

stooq_symbol_for_index(sym) == lower(sym)

-----------------------------------------------------------------------------
(* JSON values and exceptions *)

Null == [t |-> "null"]

Num(n) == [t |-> "num", v |-> n]

Str(s) == [t |-> "str", v |-> s]

\* Exception classes the fetchers can raise. All derive from Exception.
ExceptionClasses ==
    {"ConnectionError", "HTTPError", "ValueError", "AttributeError",
     "IndexError", "Exception"}

Raise(e) == [raised |-> TRUE, exc |-> e]

Return(v) == [raised |-> FALSE, value |-> v]

\* `except Exception:` around each provider attempt
CatchesOnlyRequestErrors(e) == e \in {"ConnectionError", "HTTPError"}

Catches(e) == e \in ExceptionClasses

-----------------------------------------------------------------------------
(* Upstream behaviour: what a provider can answer to one GET *)

TransportError == [transport |-> "error"]

HttpReply(status, body) == [transport |-> "ok", status |-> status, body |-> body]

\* r.raise_for_status(): 4xx and 5xx raise HTTPError
raise_for_status(r) == r.status >= 400

\* dict.get(key, default) on a JSON object
Get(obj, key, default) == IF key \in DOMAIN obj THEN obj[key] ELSE default

\* Shapes of the history part of a chart result: the chart-level
\* `timestamp` array and the arrays of indicators.quote[0].  A key that is
\* not in the record is a key the provider omitted.
FullSeries ==
    [timestamp |-> <<1, 2>>, open |-> <<10, 11>>, high |-> <<12, 13>>,
     low |-> <<8, 9>>, close |-> <<11, 12>>, volume |-> <<500, 600>>]

NoVolumeSeries ==
    [timestamp |-> <<1, 2>>, open |-> <<10, 11>>, high |-> <<12, 13>>,
     low |-> <<8, 9>>, close |-> <<11, 12>>]

NoTimestampSeries ==
    [open |-> <<10, 11>>, high |-> <<12, 13>>,
     low |-> <<8, 9>>, close |-> <<11, 12>>, volume |-> <<500, 600>>]

RaggedSeries ==
    [timestamp |-> <<1, 2>>, open |-> <<10, 11>>, high |-> <<12, 13>>,
     low |-> <<8, 9>>, close |-> <<11>>, volume |-> <<500, 600>>]

NoSeries == [timestamp |-> <<>>]

SeriesShapes ==
    {FullSeries, NoVolumeSeries, NoTimestampSeries, RaggedSeries, NoSeries}

YahooBodies ==
    {[kind |-> "notjson"], [kind |-> "notobject"], [kind |-> "noresult"],
     [kind |-> "emptyquote"]}
    \cup {[kind |-> "chart", price |-> p, currency |-> "USD", series |-> sh] :
            p \in {Null, Num(0), Num(190)}, sh \in SeriesShapes}

YahooResponses ==
    {TransportError}
    \cup {HttpReply(st, [kind |-> "notjson"]) : st \in {404, 429}}
    \cup {HttpReply(200, b) : b \in YahooBodies}

digits == <<"0","1","2","3","4","5","6","7","8","9">>

IsDigit(c) == \E i \in 1..Len(digits) : digits[i] = c

DigitValue(c) == (CHOOSE i \in 1..Len(digits) : digits[i] = c) - 1

RECURSIVE DecimalValue(_)
DecimalValue(s) ==
    IF s = <<>> THEN 0
    ELSE 10 * DecimalValue(SubSeq(s, 1, Len(s) - 1)) + DigitValue(s[Len(s)])

\* float(x): a number converts to itself, a string of digits to its value,
\* any other string raises ValueError.  Prices are whole numbers here.
float(x) ==
    IF x.t = "num" THEN Return(x.v)
    ELSE IF x.t = "str" /\ x.v # <<>> /\ \A i \in 1..Len(x.v) : IsDigit(x.v[i])
         THEN Return(DecimalValue(x.v))
    ELSE Raise("ValueError")

\* Python truthiness of a JSON value (`not close`)
Truthy(x) ==
    CASE x.t = "null" -> FALSE
      [] x.t = "num"  -> x.v # 0
      [] x.t = "str"  -> x.v # <<>>

StooqCloses ==
    {Null, Num(0), Num(45), Str(<<>>), Str(<<"N", "/", "A">>),
     Str(<<"4", "5">>), Str(<<"x">>)}

StooqBodies ==
    {[kind |-> "notjson"], [kind |-> "notlist"], [kind |-> "emptylist"],
     [kind |-> "rownotobject"]}
    \cup {[kind |-> "rows", close |-> c] : c \in StooqCloses}

StooqResponses ==
    {TransportError}
    \cup {HttpReply(st, [kind |-> "notjson"]) : st \in {404, 429}}
    \cup {HttpReply(200, b) : b \in StooqBodies}

-----------------------------------------------------------------------------
(* Provider clients *)

\* core.py fetch_yahoo_chart: chart API, primary source of server.py
fetch_yahoo_chart(sym, r) ==
    IF r.transport = "error" THEN Raise("ConnectionError")
    ELSE IF raise_for_status(r) THEN Raise("HTTPError")
    ELSE CASE r.body.kind = "notjson"    -> Raise("ValueError")
           [] r.body.kind = "notobject"  -> Raise("AttributeError")
           [] r.body.kind = "noresult"   -> Raise("Exception")
           [] r.body.kind = "emptyquote" -> Raise("IndexError")
           [] r.body.kind = "chart"      ->
                Return([source |-> "yahoo_chart", symbol |-> upper(sym),
                        regularMarketPrice |-> r.body.price,
                        currency |-> r.body.currency,
                        timestamps |-> Get(r.body.series, "timestamp", <<>>),
                        open |-> Get(r.body.series, "open", <<>>),
                        high |-> Get(r.body.series, "high", <<>>),
                        low |-> Get(r.body.series, "low", <<>>),
                        close |-> Get(r.body.series, "close", <<>>),
                        volume |-> Get(r.body.series, "volume", <<>>)])

\* proxy.py fetch_yahoo_quote: quote API, returns result[0] as is.  The
\* quote API has no indicators block, so a body without one is a result
\* that carries no regularMarketPrice.
fetch_yahoo_quote(sym, r) ==
    IF r.transport = "error" THEN Raise("ConnectionError")
    ELSE IF raise_for_status(r) THEN Raise("HTTPError")
    ELSE CASE r.body.kind = "notjson"    -> Raise("ValueError")
           [] r.body.kind = "notobject"  -> Raise("AttributeError")
           [] r.body.kind = "noresult"   -> Raise("Exception")
           [] r.body.kind = "emptyquote" -> Return([regularMarketPrice |-> Null])
           [] r.body.kind = "chart"      ->
                Return([regularMarketPrice |-> r.body.price])

\* core.py / proxy.py fetch_stooq_quote
fetch_stooq_quote(sym, r) ==
    IF r.transport = "error" THEN Raise("ConnectionError")
    ELSE IF raise_for_status(r) THEN Raise("HTTPError")
    ELSE CASE r.body.kind = "notjson"      -> Raise("ValueError")
           [] r.body.kind = "notlist"      -> Raise("Exception")
           [] r.body.kind = "emptylist"    -> Raise("Exception")
           [] r.body.kind = "rownotobject" -> Raise("AttributeError")
           [] r.body.kind = "rows"         ->
                IF ~Truthy(r.body.close) \/ r.body.close = Str(<<"N", "/", "A">>)
                THEN Raise("Exception")
                ELSE float(r.body.close)

-----------------------------------------------------------------------------
(* Resolution endpoints: /price, /futures, /index *)

Revisions == {"server", "proxy"}

Endpoints == {"price", "futures", "index"}

NoResponse == [kind |-> "none"]

NoProxyCall == [called |-> FALSE]

NoPrev == [set |-> FALSE]

NoRotation == [active |-> FALSE]

NoWorkers == <<>>

\* Does the endpoint classify the symbol?  server.py's /futures and /index
\* tag a fixed class; proxy.py's are wrappers over get_price.
Classifies(rv, ep) == rv = "proxy" \/ ep = "price"

AssetTypeFor(rv, ep, sym) ==
    IF Classifies(rv, ep) THEN detect_asset_type(sym)
    ELSE IF ep = "futures" THEN "future" ELSE "index"

\* the if/elif chain choosing the Stooq spelling
stooq_symbol(asset, sym) ==
    CASE asset = "stock"  -> stooq_symbol_for_stock(sym)
      [] asset = "future" -> stooq_symbol_for_future(sym)
      [] asset = "index"  -> stooq_symbol_for_index(sym)
      [] OTHER            -> stooq_symbol_for_stock(sym)

PrimarySource(rv) == IF rv = "server" THEN "yahoo_chart" ELSE "yahoo"

\* proxy.py get_futures / get_index: data["endpoint"] = ...
Tagged(rv, ep, body) ==
    IF rv = "proxy" /\ ep # "price"
    THEN body @@ [endpoint |-> ep]
    ELSE body

\* `if chart.get("regularMarketPrice") is not None`
PriceRejected(chart) == chart.regularMarketPrice = Null

PriceAccepted(chart) == chart.regularMarketPrice # Null

primary_returns_any(chart) == TRUE

\* the handler returns inside the first try block only under the price
\* test; otherwise control runs on to the Stooq block
primary_returns(chart) == PriceAccepted(chart)

\* server.py copies the metadata and the arrays of the chart into the
\* body; proxy.py returns source, asset_type, symbol and price only.
YahooSuccess(rv, asset, sym, chart) ==
    IF rv = "server"
    THEN [kind |-> "ok", source |-> PrimarySource(rv), asset_type |-> asset,
          symbol |-> sym, price |-> chart.regularMarketPrice,
          currency |-> chart.currency,
          timestamps |-> chart.timestamps,
          open |-> chart.open, high |-> chart.high, low |-> chart.low,
          close |-> chart.close, volume |-> chart.volume]
    ELSE [kind |-> "ok", source |-> PrimarySource(rv), asset_type |-> asset,
          symbol |-> sym, price |-> chart.regularMarketPrice]

StooqSuccessAsPrimary(rv, asset, sym, stq, price) ==
    [kind |-> "ok", source |-> PrimarySource(rv), asset_type |-> asset,
     symbol |-> sym, stooq_symbol |-> stq, price |-> Num(price)]

StooqSuccess(rv, asset, sym, stq, price) ==
    [kind |-> "ok", source |-> "stooq", asset_type |-> asset,
     symbol |-> sym, stooq_symbol |-> stq, price |-> Num(price)]

\* Body returned after both providers failed
TotalFailure(rv, ep, raw, sym, asset) ==
    IF rv = "proxy"
    THEN [kind |-> "error", error |-> "Invalid symbol or no data available",
          symbol |-> raw, asset_type |-> asset]
    ELSE CASE ep = "price" ->
                [kind |-> "error", error |-> "Invalid symbol or no data available",
                 symbol |-> sym, asset_type |-> asset]
           [] ep = "futures" ->
                [kind |-> "error", error |-> "Invalid future symbol", symbol |-> sym]
           [] ep = "index" ->
                [kind |-> "error", error |-> "Invalid index symbol", symbol |-> sym]

Attempt(provider, sym, reply, outcome) ==
    [provider |-> provider, sym |-> sym, reply |-> reply, outcome |-> outcome]

\* A request arrives: symbol = symbol.upper(), asset_type = detect_asset_type
Request(ep, sym) ==
    /\ pc = "idle"
    /\ pc' = "yahoo"
    /\ endpoint' = ep
    /\ raw_symbol' = sym
    /\ symbol' = upper(sym)
    /\ asset_type' = AssetTypeFor(rev, ep, upper(sym))
    /\ classified' = Classifies(rev, ep)
    /\ log' = <<>>
    /\ response' = NoResponse
    /\ escaped' = "none"
    /\ UNCHANGED <<rev, px, cache, hist, prev, rot, wk>>

\* 1) Yahoo (primary) inside try / except Exception
TryYahoo(reply) ==
    /\ pc = "yahoo"
    /\ LET res == IF rev = "server" THEN fetch_yahoo_chart(symbol, reply)
                  ELSE fetch_yahoo_quote(symbol, reply)
       IN  IF res.raised
           THEN /\ log' = Append(log, Attempt("yahoo", symbol, reply, res.exc))
                /\ response' = response
                /\ IF Catches(res.exc)
                   THEN pc' = "stooq" /\ escaped' = escaped
                   ELSE pc' = "done" /\ escaped' = res.exc
           ELSE IF primary_returns(res.value)
           THEN /\ log' = Append(log, Attempt("yahoo", symbol, reply, "ok"))
                /\ response' = Tagged(rev, endpoint,
                                  YahooSuccess(rev, asset_type, symbol, res.value))
                /\ pc' = "done"
                /\ escaped' = escaped
           ELSE /\ log' = Append(log, Attempt("yahoo", symbol, reply, "noprice"))
                /\ response' = response
                /\ pc' = "stooq"
                /\ escaped' = escaped
    /\ UNCHANGED <<rev, endpoint, raw_symbol, symbol, asset_type, classified,
                   px, cache, hist, prev, rot, wk>>

\* 2) Stooq fallback inside try / except Exception, then 3) total failure
TryStooq(reply) ==
    /\ pc = "stooq"
    /\ LET stq_symbol == stooq_symbol(asset_type, symbol)
           res == fetch_stooq_quote(stq_symbol, reply)
       IN  IF res.raised
           THEN /\ log' = Append(log, Attempt("stooq", stq_symbol, reply, res.exc))
                /\ IF Catches(res.exc)
                   THEN /\ response' = Tagged(rev, endpoint,
                                TotalFailure(rev, endpoint, raw_symbol, symbol, asset_type))
                        /\ escaped' = escaped
                   ELSE /\ response' = response
                        /\ escaped' = res.exc
           ELSE /\ log' = Append(log, Attempt("stooq", stq_symbol, reply, "ok"))
                /\ response' = Tagged(rev, endpoint,
                        StooqSuccess(rev, asset_type, symbol, stq_symbol, res.value))
                /\ escaped' = escaped
    /\ pc' = "done"
    /\ UNCHANGED <<rev, endpoint, raw_symbol, symbol, asset_type, classified,
                   px, cache, hist, prev, rot, wk>>

\* The body has been sent; the worker is free for the next request.
Finish ==
    /\ pc = "done"
    /\ pc' = "idle"
    /\ endpoint' = "none"
    /\ raw_symbol' = <<>>
    /\ symbol' = <<>>
    /\ asset_type' = "none"
    /\ classified' = FALSE
    /\ log' = <<>>
    /\ response' = NoResponse
    /\ escaped' = "none"
    /\ px' = NoProxyCall
    /\ UNCHANGED <<rev, cache, hist, prev, rot, wk>>

InitCommon ==
    /\ rev \in Revisions
    /\ pc = "idle"
    /\ endpoint = "none"
    /\ raw_symbol = <<>>
    /\ symbol = <<>>
    /\ asset_type = "none"
    /\ classified = FALSE
    /\ log = <<>>
    /\ response = NoResponse
    /\ escaped = "none"
    /\ px = NoProxyCall
    /\ hist = <<>>
    /\ prev = NoPrev
    /\ rot = NoRotation
    /\ wk = NoWorkers

Init ==
    /\ InitCommon
    /\ cache = <<>>

Next ==
    \/ \E ep \in Endpoints, sym \in Symbols : Request(ep, sym)
    \/ \E reply \in YahooResponses : TryYahoo(reply)
    \/ \E reply \in StooqResponses : TryStooq(reply)
    \/ Finish

Spec == Init /\ [][Next]_vars

-----------------------------------------------------------------------------
(* Properties of the resolution endpoints *)

Done == pc = "done"

Attempted(p) == \E i \in 1..Len(log) : log[i].provider = p

PrimaryAttempt == log[1]

SecondaryAttempt == log[2]

\* the primary fetch returned a value instead of raising
PrimaryReturned == Len(log) >= 1 /\ PrimaryAttempt.outcome \in {"ok", "noprice"}

\* the primary answered 200 with a chart that carries a price
PrimaryHasPrice ==
    /\ Len(log) >= 1
    /\ PrimaryAttempt.reply.transport = "ok"
    /\ PrimaryAttempt.reply.status = 200
    /\ PrimaryAttempt.reply.body.kind = "chart"
    /\ PrimaryAttempt.reply.body.price # Null

SecondarySucceeded ==
    /\ Len(log) = 2
    /\ SecondaryAttempt.provider = "stooq"
    /\ SecondaryAttempt.outcome = "ok"

\* C1: the primary provider (Yahoo) is attempted before the secondary
\* (Stooq) in every resolution, and when the primary attempt fails and the
\* secondary succeeds the returned source is "stooq".
C1_PrimaryBeforeSecondary ==
    /\ \A i \in 1..Len(log) :
          log[i].provider = "stooq" =>
              \E j \in 1..(i - 1) : log[j].provider = "yahoo"
    /\ (Done /\ SecondarySucceeded /\ PrimaryAttempt.outcome # "ok") =>
          (response.kind = "ok" /\ response.source = "stooq")

C1_Witness ==
    /\ Done
    /\ SecondarySucceeded
    /\ PrimaryAttempt.provider = "yahoo"
    /\ PrimaryAttempt.outcome = "HTTPError"
    /\ response.source = "stooq"

AttemptFailed(a) == a.outcome # "ok"

\* C3: whatever the providers answer, no exception leaves the handler, the
\* handler returns a structured body, and a body with the `error` key is
\* returned only after both providers were attempted and failed.
C3_NoEscapeErrorOnlyWhenExhausted ==
    /\ escaped = "none"
    /\ Done => response.kind \in {"ok", "error"}
    /\ response.kind = "error" =>
          /\ "error" \in DOMAIN response
          /\ Len(log) = 2
          /\ PrimaryAttempt.provider = "yahoo" /\ AttemptFailed(PrimaryAttempt)
          /\ SecondaryAttempt.provider = "stooq" /\ AttemptFailed(SecondaryAttempt)
    /\ response.kind = "ok" => ~("error" \in DOMAIN response)

C3_Witness ==
    /\ Done
    /\ response.kind = "error"
    /\ PrimaryAttempt.reply.transport = "ok"
    /\ PrimaryAttempt.reply.status = 429
    /\ SecondaryAttempt.outcome = "ValueError"
    /\ escaped = "none"

\* C4: when every provider fails, the failure body carries the asset class
\* and the raw symbol exactly as the caller supplied it.
C4_FailureCarriesRawSymbol ==
    (Done /\ response.kind = "error") =>
        /\ response.symbol = raw_symbol
        /\ "asset_type" \in DOMAIN response
        /\ response.asset_type = asset_type

-----------------------------------------------------------------------------
(* Properties of classification and symbol translation *)

BeginsWithCaret(s) == Len(s) >= 1 /\ s[1] = "^"

HasEquals(s) == \E i \in 1..Len(s) : s[i] = "="

\* a request whose asset class was computed by detect_asset_type
ClassifiedRequest == pc # "idle" /\ classified

\* C8: detect_asset_type is total and applies its rules in priority order:
\* a leading '^' gives index even when '=' is present, otherwise a '='
\* gives future, otherwise stock.
C8_ClassifyPriority ==
    ClassifiedRequest =>
        /\ asset_type \in {"index", "future", "stock"}
        /\ BeginsWithCaret(raw_symbol) => asset_type = "index"
        /\ (HasEquals(raw_symbol) /\ ~BeginsWithCaret(raw_symbol)) =>
              asset_type = "future"
        /\ (~HasEquals(raw_symbol) /\ ~BeginsWithCaret(raw_symbol)) =>
              asset_type = "stock"

C8_Witness ==
    /\ ClassifiedRequest
    /\ BeginsWithCaret(raw_symbol)
    /\ HasEquals(raw_symbol)
    /\ asset_type = "index"

\* s without its trailing "=F", when it ends with "=F"
StripTrailingEqF(s) ==
    IF Len(s) >= 2 /\ SubSeq(s, Len(s) - 1, Len(s)) = <<"=", "F">>
    THEN SubSeq(s, 1, Len(s) - 2)
    ELSE s

\* C9: for every symbol classified future, the Stooq spelling is the
\* upper-cased symbol with only its trailing "=F" removed, lower-cased,
\* followed by ".f".
C9_FutureTranslation ==
    (ClassifiedRequest /\ asset_type = "future" /\ Attempted("stooq")) =>
        SecondaryAttempt.sym =
            lower(StripTrailingEqF(upper(raw_symbol))) \o <<".", "f">>

\* C10: in /price the Stooq spelling of a stock is the lower-cased symbol
\* followed by ".us" and that of an index is the lower-cased symbol with
\* its caret; a Stooq success reports it as stooq_symbol while symbol stays
\* the upper-case one.
C10_StockIndexTranslation ==
    /\ stooq_symbol_for_stock(<<"A", "A", "P", "L">>)
          = <<"a", "a", "p", "l", ".", "u", "s">>
    /\ stooq_symbol_for_index(<<"^", "G", "S", "P", "C">>)
          = <<"^", "g", "s", "p", "c">>
    /\ (ClassifiedRequest /\ Attempted("stooq")) =>
          /\ asset_type = "stock" =>
                SecondaryAttempt.sym = lower(raw_symbol) \o <<".", "u", "s">>
          /\ asset_type = "index" =>
                /\ SecondaryAttempt.sym = lower(raw_symbol)
                /\ SecondaryAttempt.sym[1] = "^"
          /\ (Done /\ SecondarySucceeded /\ asset_type \in {"stock", "index"}) =>
                /\ response.stooq_symbol = SecondaryAttempt.sym
                /\ response.symbol = upper(raw_symbol)
                /\ response.asset_type = asset_type

C10_Witness ==
    /\ Done
    /\ endpoint = "price"
    /\ SecondarySucceeded
    /\ raw_symbol = <<"^", "f", "F">>
    /\ response.source = "stooq"
    /\ response.symbol = <<"^", "F", "F">>
    /\ response.stooq_symbol = <<"^", "f", "f">>

-----------------------------------------------------------------------------
(* server.py: /proxy, the generic forwarding endpoint *)

\* The authority part of a target URL (urlparse(url).netloc) is a sequence
\* of tokens: host names, ':' , '@' and a port number.  The text of the
\* authority is the concatenation of its tokens.
UrlTokens == {"stooq.com", "STOOQ.COM", "evil.com", ":", "@", "80"}

RECURSIVE TokenSeqsUpTo(_)
TokenSeqsUpTo(n) ==
    IF n = 0 THEN {<<>>}
    ELSE LET shorter == TokenSeqsUpTo(n - 1)
         IN  shorter \cup {Append(s, t) : s \in shorter, t \in UrlTokens}

Netlocs == TokenSeqsUpTo(MaxNetloc)

WHITELISTED_DOMAINS == {<<"stooq.com">>}

LowerToken(t) == IF t = "STOOQ.COM" THEN "stooq.com" ELSE t

lowerTokens(s) == [i \in 1..Len(s) |-> LowerToken(s[i])]

FirstIndexOf(s, t) == CHOOSE i \in 1..Len(s) : s[i] = t /\ \A j \in 1..(i - 1) : s[j] # t

LastIndexOf(s, t) == CHOOSE i \in 1..Len(s) : s[i] = t /\ \A j \in (i + 1)..Len(s) : s[j] # t

Has(s, t) == \E i \in 1..Len(s) : s[i] = t

\* host.split(":", 1)[0]
BeforeFirstColon(s) ==
    IF Has(s, ":") THEN SubSeq(s, 1, FirstIndexOf(s, ":") - 1) ELSE s

AfterFirstColon(s) ==
    IF Has(s, ":") THEN SubSeq(s, FirstIndexOf(s, ":") + 1, Len(s)) ELSE <<>>

\* host as _check_whitelist computes it from the netloc
WhitelistHost(netloc) == BeforeFirstColon(lowerTokens(netloc))

\* TRUE when _check_whitelist lets the URL pass (no HTTPException 400)
check_whitelist_passes(netloc) == WhitelistHost(netloc) \in WHITELISTED_DOMAINS

\* How the HTTP client splits the authority: userinfo is everything up to
\* the last '@', then host[:port].
HostPort(netloc) ==
    IF Has(netloc, "@")
    THEN SubSeq(netloc, LastIndexOf(netloc, "@") + 1, Len(netloc))
    ELSE netloc

\* host the request is sent to (lower-case, host names are case-insensitive)
DestinationHost(netloc) == lowerTokens(BeforeFirstColon(HostPort(netloc)))

\* The client refuses (InvalidURL, a RequestException) an authority with an
\* empty host or a port that is not a number.
ClientAcceptsUrl(netloc) ==
    /\ DestinationHost(netloc) # <<>>
    /\ AfterFirstColon(HostPort(netloc)) \in {<<>>, <<"80">>}

Methods == {<<"G","E","T">>, <<"g","e","t">>, <<"P","O","S","T">>, <<"P","U","T">>}

ProxyUpstreams ==
    {TransportError}
    \cup {HttpReply(st, [kind |-> k, text |-> "payload"]) :
            st \in {200, 404}, k \in {"json", "badjson", "text"}}

ProxyResult(netloc, method, up, status, outbound, body) ==
    [called |-> TRUE, netloc |-> netloc, method |-> method, up |-> up,
     status |-> status, outbound |-> outbound, body |-> body]

\* What the try block of internal_proxy does: it raises, or it has the
\* upstream response r
proxy_request(netloc, method, up) ==
    IF upper(method) \notin {<<"G","E","T">>, <<"P","O","S","T">>}
    THEN Raise("HTTPException400")
    ELSE IF ~ClientAcceptsUrl(netloc) THEN Raise("InvalidURL")
    ELSE IF up.transport = "error" THEN Raise("ConnectionError")
    ELSE Return(up)

IsAnyException(e) == TRUE

\* `except requests.RequestException`
IsRequestException(e) == e \in {"InvalidURL", "ConnectionError"}

\* JSON bodies are passed through, anything else is wrapped
proxy_body(r) ==
    IF r.body.kind = "json"
    THEN [json |-> r.body.text]
    ELSE [status_code |-> r.status, content |-> r.body.text]

\* internal_proxy(url, method, body)
internal_proxy(netloc, method, up) ==
    /\ pc = "idle"
    /\ pc' = "done"
    /\ px' =
        IF ~check_whitelist_passes(netloc)
        THEN ProxyResult(netloc, method, up, 400, {}, [detail |-> "Domain not allowed"])
        ELSE LET res == proxy_request(netloc, method, up)
                 sent == IF res.raised /\ res.exc # "ConnectionError"
                         THEN {} ELSE {DestinationHost(netloc)}
             IN  IF res.raised
                 THEN IF IsRequestException(res.exc)
                      THEN ProxyResult(netloc, method, up, 502, sent, [detail |-> res.exc])
                      ELSE ProxyResult(netloc, method, up, 400, sent,
                                       [detail |-> "Only GET and POST are supported"])
                 ELSE ProxyResult(netloc, method, up, 200, sent, proxy_body(res.value))
    /\ UNCHANGED <<rev, endpoint, raw_symbol, symbol, asset_type, classified,
                   log, response, escaped, cache, hist, prev, rot, wk>>

InitProxy ==
    /\ InitCommon
    /\ rev = "server"
    /\ cache \in {<<>>, <<[url |-> 1, body |-> 1]>>}

NextProxy ==
    \/ /\ pc = "idle"
       /\ \E netloc \in Netlocs, method \in Methods, up \in ProxyUpstreams :
             internal_proxy(netloc, method, up)
    \/ Finish

SpecProxy == InitProxy /\ [][NextProxy]_vars

\* C5: /proxy sends a request only to an allow-listed destination host; a
\* target whose destination host is not allow-listed, whatever port or
\* userinfo its authority carries, gets HTTP 400 and no request is sent.
C5_OnlyAllowListedDestinations ==
    px.called =>
        /\ \A h \in px.outbound : h \in WHITELISTED_DOMAINS
        /\ (ClientAcceptsUrl(px.netloc)
              /\ DestinationHost(px.netloc) \notin WHITELISTED_DOMAINS) =>
              (px.status = 400 /\ px.outbound = {})

-----------------------------------------------------------------------------
(* cached_get_json (server.py) / cached_get (proxy.py): @lru_cache(maxsize=256) *)

maxsize == 256

\* URLs the calls draw from.  URL 0 is on a host that is not allow-listed,
\* 1 and 2 are new allow-listed URLs, 101 is the URL fetched first by a
\* process that has already served URLs 101 .. 100 + maxsize.
CacheUrls == {0, 1, 2, 101}

UrlNetloc(u) == IF u = 0 THEN <<"evil.com">> ELSE <<"stooq.com">>

Entry(u, v) == [url |-> u, body |-> v]

WarmEntry(i) == Entry(100 + i, 1)

WarmCache == [i \in 1..maxsize |-> WarmEntry(i)]

CacheUpstreams ==
    {TransportError, HttpReply(404, [kind |-> "notjson"]),
     HttpReply(200, [kind |-> "notjson"])}
    \cup {HttpReply(200, [kind |-> "json", json |-> v]) : v \in {1, 2}}

CacheKeys(c) == {c[i].url : i \in 1..Len(c)}

CacheNeverHit(c, u) == FALSE

\* lru_cache lookup: is there an entry for the key?
CacheHit(c, u) == u \in CacheKeys(c)

CacheIndex(c, u) == CHOOSE i \in 1..Len(c) : c[i].url = u

CacheValue(c, u) == c[CacheIndex(c, u)].body

Without(c, i) == SubSeq(c, 1, i - 1) \o SubSeq(c, i + 1, Len(c))

CacheTouchKeepsPlace(c, u) == c

\* lru_cache hit: the entry becomes the most recently used one
CacheTouch(c, u) ==
    LET i == CacheIndex(c, u) IN Append(Without(c, i), c[i])

\* lru_cache miss after the wrapped function returned: store the result,
\* dropping the oldest entry when the cache is full
CacheInsert(c, u, v) ==
    IF Len(c) >= maxsize
    THEN Append(Tail(c), Entry(u, v))
    ELSE Append(c, Entry(u, v))

\* body of the wrapped function: whitelist check (server.py only), GET,
\* raise_for_status, r.json()
cached_fetch(rv, u, r) ==
    IF rv = "server" /\ ~check_whitelist_passes(UrlNetloc(u))
    THEN [raised |-> TRUE, exc |-> "HTTPException400", fetched |-> FALSE]
    ELSE IF r.transport = "error"
    THEN [raised |-> TRUE, exc |-> "ConnectionError", fetched |-> TRUE]
    ELSE IF raise_for_status(r)
    THEN [raised |-> TRUE, exc |-> "HTTPError", fetched |-> TRUE]
    ELSE IF r.body.kind = "notjson"
    THEN [raised |-> TRUE, exc |-> "ValueError", fetched |-> TRUE]
    ELSE [raised |-> FALSE, value |-> r.body.json, fetched |-> TRUE]

Call(u, hit, fetched, result, evicted) ==
    [url |-> u, hit |-> hit, fetched |-> fetched, result |-> result,
     evicted |-> evicted]

\* one call of the cached helper that finds the key in the cache
cached_get_hit(u) ==
    /\ Len(hist) < MaxOps
    /\ CacheHit(cache, u)
    /\ cache' = CacheTouch(cache, u)
    /\ hist' = Append(hist, Call(u, TRUE, FALSE, Return(CacheValue(cache, u)), {}))
    /\ UNCHANGED <<rev, pc, endpoint, raw_symbol, symbol, asset_type, classified,
                   log, response, escaped, px,
                   prev, rot, wk>>

cache_after_any(c, u, res) ==
    CacheInsert(c, u, IF res.raised THEN res.exc ELSE res.value)

\* lru_cache stores what the wrapped function returns; an exception leaves
\* the wrapper before anything is stored
cache_after(c, u, res) ==
    IF res.raised THEN c ELSE CacheInsert(c, u, res.value)

\* one call of the cached helper that does not find the key: the wrapped
\* function runs; its result is stored, an exception is not
cached_get_miss(u, r) ==
    /\ Len(hist) < MaxOps
    /\ ~CacheHit(cache, u)
    /\ LET res == cached_fetch(rev, u, r)
           after == cache_after(cache, u, res)
       IN  /\ cache' = after
           /\ hist' = Append(hist,
                         Call(u, FALSE, res.fetched,
                              IF res.raised THEN Raise(res.exc) ELSE Return(res.value),
                              CacheKeys(cache) \ CacheKeys(after)))
    /\ UNCHANGED <<rev, pc, endpoint, raw_symbol, symbol, asset_type, classified,
                   log, response, escaped, px,
                   prev, rot, wk>>

\* The cache of a fresh process, or that of a process which has already
\* served URLs 101 .. 100 + maxsize, in that order.
InitCache ==
    /\ InitCommon
    /\ cache \in {<<>>, WarmCache}

NextCache ==
    \/ \E u \in CacheUrls : cached_get_hit(u)
    \/ \E u \in CacheUrls, r \in CacheUpstreams : cached_get_miss(u, r)

SpecCache == InitCache /\ [][NextCache]_vars

-----------------------------------------------------------------------------
(* Properties of the response cache *)

\* number of outbound fetches for URL u made by calls i..j
FetchesBetween(u, i, j) ==
    Cardinality({k \in i..j : hist[k].url = u /\ hist[k].fetched})

\* u stays in the cache from call i to call j: no call in between evicts it
NotEvictedBetween(u, i, j) == \A k \in (i + 1)..j : u \notin hist[k].evicted

\* call j is the next call for the URL of call i, which was not yet cached
\* when call i was made
FirstAndSecondCall(i, j) ==
    /\ i < j
    /\ hist[i].url = hist[j].url
    /\ ~hist[i].hit
    /\ \A k \in (i + 1)..(j - 1) : hist[k].url # hist[i].url
    /\ NotEvictedBetween(hist[i].url, i, j)

\* C6 as stated: for any URL, two calls with the identical URL, with the
\* URL not evicted in between, return identical results and cause exactly
\* one outbound fetch in total.
C6_Original ==
    \A i, j \in 1..Len(hist) :
        FirstAndSecondCall(i, j) =>
            /\ hist[i].result = hist[j].result
            /\ FetchesBetween(hist[i].url, i, j) = 1

\* C6 amended: two successive calls with the identical URL, the first of
\* which fetched the URL successfully, with the URL not evicted in
\* between, return identical results and cause exactly one outbound fetch
\* in total: the second call is a cache hit.
C6_SecondCallHits ==
    \A i, j \in 1..Len(hist) :
        (FirstAndSecondCall(i, j) /\ ~hist[i].result.raised) =>
            /\ hist[j].hit
            /\ hist[i].result = hist[j].result
            /\ FetchesBetween(hist[i].url, i, j) = 1

C6_Witness ==
    /\ Len(hist) = 3
    /\ FirstAndSecondCall(1, 3)
    /\ hist[1].result = Return(2)
    /\ hist[2].url # hist[1].url
    /\ hist[3].hit
    /\ hist[3].result = Return(2)

\* Recency of a cached URL, from the calls alone: the index of the last
\* call that used it, or, for a URL not used since the start, its place
\* in the order in which the warm cache was filled.
UsedBy(u) == {k \in 1..Len(hist) : hist[k].url = u /\ ~hist[k].result.raised}

Recency(u) ==
    IF UsedBy(u) # {}
    THEN maxsize + (CHOOSE k \in UsedBy(u) : \A m \in UsedBy(u) : m <= k)
    ELSE u - 100

\* u is the least recently used of the URLs cached in c
IsLeastRecentlyUsed(u, c) ==
    /\ u \in CacheKeys(c)
    /\ \A w \in CacheKeys(c) : Recency(u) <= Recency(w)

LastCall == hist'[Len(hist')]

\* a call has just stored a new URL while the cache was full
StoredWhileFull ==
    /\ Len(hist') = Len(hist) + 1
    /\ ~LastCall.hit
    /\ ~LastCall.result.raised
    /\ Len(cache) = maxsize

\* C7: the cache never holds more than 256 entries, and a call that
\* stores a new URL while the cache is full evicts exactly one entry, the
\* least recently used one, and keeps all the others.
C7_BoundedLru ==
    /\ [](Len(cache) <= 256 /\ Cardinality(CacheKeys(cache)) = Len(cache))
    /\ [][StoredWhileFull =>
            \E u \in CacheKeys(cache) \ CacheKeys(cache') :
                /\ CacheKeys(cache) \ CacheKeys(cache') = {u}
                /\ IsLeastRecentlyUsed(u, cache)
                /\ CacheKeys(cache') = (CacheKeys(cache) \ {u}) \cup {LastCall.url}
                /\ \A i \in 1..Len(cache) :
                      cache[i].url # u => \E j \in 1..Len(cache') : cache'[j] = cache[i]
                /\ Len(cache') = 256]_vars

\* a full cache in which URL 101 was hit before URL 1 was stored: the
\* entry evicted was 102
C7_Witness ==
    /\ Len(cache) = 256
    /\ Len(hist) >= 2
    /\ hist[1].url = 101 /\ hist[1].hit
    /\ hist[2].url = 1 /\ hist[2].evicted = {102}
    /\ 101 \in CacheKeys(cache)
    /\ 1 \in CacheKeys(cache)

-----------------------------------------------------------------------------
(* /crypto: server.py crypto_price + core.py fetch_crypto_price, and
   proxy.py get_crypto + fetch_coingecko_price *)

\* keys the CoinGecko answer can carry, and what stands under "usd"
CoinKeys == {<<"f">>, <<"F">>}

UsdValues == {Null, Num(65000), Str(<<"4", "5">>), Str(<<"x">>)}

CryptoBodies ==
    {[kind |-> "notjson"], [kind |-> "null"], [kind |-> "empty"]}
    \cup {[kind |-> "coin", id |-> k, hasUsd |-> FALSE] : k \in CoinKeys}
    \cup {[kind |-> "coin", id |-> k, hasUsd |-> TRUE, usd |-> v] :
            k \in CoinKeys, v \in UsdValues}

CryptoResponses ==
    {TransportError}
    \cup {HttpReply(st, [kind |-> "notjson"]) : st \in {404, 429}}
    \cup {HttpReply(200, b) : b \in CryptoBodies}

\* float(data[coin_id]["usd"]): float(None) is a TypeError
float_usd(x) == IF x.t = "null" THEN Raise("TypeError") ELSE float(x)

\* fetch_crypto_price / fetch_coingecko_price: the price, or an exception
fetch_crypto_price(coin_id, r) ==
    IF r.transport = "error" THEN Raise("ConnectionError")
    ELSE IF raise_for_status(r) THEN Raise("HTTPError")
    ELSE CASE r.body.kind = "notjson" -> Raise("ValueError")
           [] r.body.kind = "null"    -> Raise("TypeError")
           [] r.body.kind = "empty"   -> Raise("Exception")
           [] r.body.kind = "coin"    ->
                IF r.body.id # coin_id \/ ~r.body.hasUsd
                THEN Raise("Exception")
                ELSE float_usd(r.body.usd)

CryptoSuccess(coin_id, price) ==
    [kind |-> "ok", source |-> "coingecko", symbol |-> upper(coin_id),
     price |-> Num(price)]

\* server.py: raise HTTPException(status_code=400, detail=str(e));
\* proxy.py: return {"error": str(e), "symbol": symbol}
CryptoFailure(rv, raw, exc) ==
    IF rv = "server"
    THEN [kind |-> "http_error", status |-> 400, detail |-> exc]
    ELSE [kind |-> "error", status |-> 200, error |-> exc, symbol |-> raw]

\* GET /crypto/{symbol} arrives: symbol = symbol.lower()
CryptoRequest(sym) ==
    /\ pc = "idle"
    /\ pc' = "crypto"
    /\ endpoint' = "crypto"
    /\ raw_symbol' = sym
    /\ symbol' = lower(sym)
    /\ asset_type' = "none"
    /\ classified' = FALSE
    /\ log' = <<>>
    /\ response' = NoResponse
    /\ escaped' = "none"
    /\ UNCHANGED <<rev, px, cache, hist, prev, rot, wk>>

\* the single CoinGecko call inside try / except Exception
TryCrypto(reply) ==
    /\ pc = "crypto"
    /\ LET coin_id == lower(symbol)
           res == fetch_crypto_price(coin_id, reply)
       IN  IF res.raised
           THEN /\ log' = Append(log, Attempt("coingecko", coin_id, reply, res.exc))
                /\ response' = CryptoFailure(rev, raw_symbol, res.exc)
           ELSE /\ log' = Append(log, Attempt("coingecko", coin_id, reply, "ok"))
                /\ response' = CryptoSuccess(coin_id, res.value)
    /\ pc' = "done"
    /\ UNCHANGED <<rev, endpoint, raw_symbol, symbol, asset_type, classified,
                   escaped, px, cache, hist, prev, rot, wk>>

InitCrypto ==
    /\ InitCommon
    /\ cache = <<>>

NextCrypto ==
    \/ \E sym \in Symbols : CryptoRequest(sym)
    \/ \E reply \in CryptoResponses : TryCrypto(reply)
    \/ Finish

SpecCrypto == InitCrypto /\ [][NextCrypto]_vars

\* the provider answered 200 with the queried identifier and a usd price
CryptoPriceFor(a, id) ==
    /\ a.reply.transport = "ok"
    /\ a.reply.status = 200
    /\ a.reply.body.kind = "coin"
    /\ a.reply.body.id = id
    /\ a.reply.body.hasUsd
    /\ \/ a.reply.body.usd.t = "num"
       \/ a.reply.body.usd = Str(<<"4", "5">>)

\* C11: /crypto calls only the crypto provider, once, with the lower-cased
\* symbol; when the answer holds that identifier with a usd price the
\* result is {source, upper-cased symbol, price}, otherwise the outcome is
\* a 4xx error with an error detail.
C11_CryptoOnly ==
    (Done /\ endpoint = "crypto") =>
        /\ Len(log) = 1
        /\ log[1].provider = "coingecko"
        /\ log[1].sym = lower(raw_symbol)
        /\ IF CryptoPriceFor(log[1], lower(raw_symbol))
           THEN /\ response.kind = "ok"
                /\ response.source = "coingecko"
                /\ response.symbol = upper(raw_symbol)
                /\ response.price \in {Num(65000), Num(45)}
           ELSE /\ response.kind = "http_error"
                /\ response.status \in 400..499
                /\ "detail" \in DOMAIN response

-----------------------------------------------------------------------------
(* Properties of /futures and /index *)

FixedClass(ep) == IF ep = "futures" THEN "future" ELSE "index"

\* C12: every body of /futures and /index, success or total failure, is
\* tagged with the endpoint's fixed asset class whatever the symbol looks
\* like, and carries an `endpoint` field.
C12_FixedClassAndEndpoint ==
    (Done /\ endpoint \in {"futures", "index"} /\ response.kind \in {"ok", "error"}) =>
        /\ "asset_type" \in DOMAIN response
        /\ response.asset_type = FixedClass(endpoint)
        /\ "endpoint" \in DOMAIN response
        /\ response.endpoint = endpoint

-----------------------------------------------------------------------------
(* Properties of the returned quote *)

OhlcvFields == {"open", "high", "low", "close", "volume"}

SeriesFields == OhlcvFields \cup {"timestamps"}

\* length of an array of the body; a body without the field has none
ArrayLen(body, f) == IF f \in DOMAIN body THEN Len(body[f]) ELSE 0

\* C13: in every returned quote, if one of the open, high, low, close,
\* volume arrays is non-empty then all five and the timestamp array have
\* the same length.
C13_ParallelArrays ==
    (Done /\ response.kind = "ok") =>
        ((\E f \in OhlcvFields : ArrayLen(response, f) > 0) =>
            \A f, g \in SeriesFields : ArrayLen(response, f) = ArrayLen(response, g))

-----------------------------------------------------------------------------
(* Two /price resolutions of symbols that differ only in letter case,
   answered identically by the providers *)

\* a and b are the same text up to the case of the letters f / F
SameUpToCase(a, b) ==
    /\ Len(a) = Len(b)
    /\ \A i \in 1..Len(a) :
          \/ a[i] = b[i]
          \/ {a[i], b[i]} = {"f", "F"}

\* The first resolution is complete: keep what it was asked, what the
\* providers answered and what was returned; the worker is idle again.
Remember ==
    /\ pc = "done"
    /\ ~prev.set
    /\ prev' = [set |-> TRUE, endpoint |-> endpoint, raw_symbol |-> raw_symbol,
                log |-> log, response |-> response]
    /\ pc' = "idle"
    /\ endpoint' = "none"
    /\ raw_symbol' = <<>>
    /\ symbol' = <<>>
    /\ asset_type' = "none"
    /\ classified' = FALSE
    /\ log' = <<>>
    /\ response' = NoResponse
    /\ escaped' = "none"
    /\ UNCHANGED <<rev, px, cache, hist, rot, wk>>

\* the reply a provider gave to the first resolution, if it was asked
SameReplyAsBefore(i, reply) ==
    (prev.set /\ Len(prev.log) >= i) => reply = prev.log[i].reply

\* provider answers of the paired resolutions: one of each outcome
PairYahooResponses ==
    {TransportError, HttpReply(404, [kind |-> "notjson"])}
    \cup {HttpReply(200, [kind |-> "chart", price |-> p, currency |-> "USD",
                          series |-> FullSeries]) : p \in {Null, Num(190)}}

PairStooqResponses ==
    {TransportError}
    \cup {HttpReply(200, [kind |-> "rows", close |-> c]) :
            c \in {Num(45), Str(<<"N", "/", "A">>)}}

InitPair ==
    /\ InitCommon
    /\ cache = <<>>

NextPair ==
    \/ \E sym \in Symbols : ~prev.set /\ Request("price", sym)
    \/ \E sym \in Symbols :
          /\ prev.set
          /\ sym # prev.raw_symbol
          /\ SameUpToCase(sym, prev.raw_symbol)
          /\ Request(prev.endpoint, sym)
    \/ \E reply \in PairYahooResponses : SameReplyAsBefore(1, reply) /\ TryYahoo(reply)
    \/ \E reply \in PairStooqResponses : SameReplyAsBefore(2, reply) /\ TryStooq(reply)
    \/ Remember

SpecPair == InitPair /\ [][NextPair]_vars

SecondDone == prev.set /\ pc = "done"

Spellings(l) == [i \in 1..Len(l) |-> <<l[i].provider, l[i].sym>>]

\* C14 as stated: two raw symbols that differ only in case, with identical
\* provider behaviour, get identical /price responses (the same failure
\* body included) and the providers are queried with the same spellings.
C14_Original ==
    SecondDone =>
        /\ response = prev.response
        /\ Spellings(log) = Spellings(prev.log)

\* a body without the symbol it echoes
WithoutSymbol(body) == [f \in DOMAIN body \ {"symbol"} |-> body[f]]

\* C14 amended: two raw symbols that differ only in case, with identical
\* provider behaviour, get identical success responses (asset_type,
\* symbol, source, price) or failure bodies with the same error and
\* asset_type, and the providers are queried with the same spellings; only
\* the symbol echoed in a failure body may keep the caller's case.
C14_CaseInsensitive ==
    SecondDone =>
        /\ Spellings(log) = Spellings(prev.log)
        /\ escaped = "none"
        /\ response.kind = prev.response.kind
        /\ response.kind = "ok" => response = prev.response
        /\ response.kind = "error" =>
              /\ WithoutSymbol(response) = WithoutSymbol(prev.response)
              /\ SameUpToCase(response.symbol, prev.response.symbol)

C14_Witness ==
    /\ SecondDone
    /\ raw_symbol # prev.raw_symbol
    /\ Len(log) = 2
    /\ response.kind = "ok"
    /\ response.source = "stooq"
    /\ response = prev.response

-----------------------------------------------------------------------------
(* Outbound calls through forwarding relays.  proxy.py sends every call
   through one relay (proxy_url, AllOrigins) and core.py calls the target
   directly; the rotation over several configured relays follows the
   design of the RelayRotator. *)

MaxRelays == 3

RelayIds == 1..MaxRelays

Direct == 0

\* relay lists that can be configured: distinct relays, the first one is
\* the designated primary; the empty list means "call the target directly"
RelayConfigs ==
    {<<>>} \cup UNION {{f \in [1..n -> RelayIds] :
                          \A i, j \in 1..n : i # j => f[i] # f[j]} : n \in 1..MaxRelays}

Range(f) == {f[i] : i \in DOMAIN f}

\* all orders in which the relays of S can be shuffled
Shuffles(S) ==
    {f \in [1..Cardinality(S) -> S] : \A i, j \in DOMAIN f : i # j => f[i] # f[j]}

\* proxy_url: the target URL wrapped into the relay's URL scheme
proxy_url(relay, raw_url) ==
    IF relay = Direct THEN <<raw_url>> ELSE <<"relay", relay, raw_url>>

RelayReplies ==
    {TransportError, HttpReply(404, [kind |-> "notjson"]),
     HttpReply(429, [kind |-> "notjson"]), HttpReply(200, [kind |-> "notjson"])}
    \cup {HttpReply(200, [kind |-> "json", json |-> v]) : v \in {1, 2}}

\* one GET through a relay: requests.get, raise_for_status, r.json()
relay_fetch(r) ==
    IF r.transport = "error" THEN Raise("ConnectionError")
    ELSE IF raise_for_status(r) THEN Raise("HTTPError")
    ELSE IF r.body.kind = "notjson" THEN Raise("ValueError")
    ELSE Return(r.body.json)

RelayAttempt(relay, reply) ==
    [relay |-> relay, url |-> proxy_url(relay, "target"), reply |-> reply,
     result |-> relay_fetch(reply)]

first_error(attempts) == attempts[1].result

\* the error surfaced when every attempt failed
last_error(attempts) == attempts[Len(attempts)].result

\* relayedGet(rawUrl) is called with the configured relays
relayedGet(relays) ==
    /\ pc = "idle"
    /\ pc' = "relay"
    /\ rot' = [active |-> TRUE, relays |-> relays, shuffled |-> FALSE,
               remaining |-> <<>>, attempts |-> <<>>, result |-> NoResponse]
    /\ UNCHANGED <<rev, endpoint, raw_symbol, symbol, asset_type, classified,
                   log, response, escaped, px, cache, hist, prev, wk>>

\* what the call returns once nothing is left to try after a failure
Surface(attempts) ==
    [kind |-> "error", error |-> last_error(attempts)]

Success(a) == [kind |-> "ok", value |-> a.result.value]

\* no relay configured: the target is called directly, once
AttemptDirect(reply) ==
    /\ pc = "relay"
    /\ rot.relays = <<>>
    /\ LET a == RelayAttempt(Direct, reply)
           attempts == Append(rot.attempts, a)
       IN  rot' = [rot EXCEPT !.attempts = attempts,
                              !.result = IF a.result.raised THEN Surface(attempts)
                                         ELSE Success(a)]
    /\ pc' = "relaydone"
    /\ UNCHANGED <<rev, endpoint, raw_symbol, symbol, asset_type, classified,
                   log, response, escaped, px, cache, hist, prev, wk>>

\* the designated primary relay is tried first; when it fails the other
\* relays are shuffled into the order in which they will be tried
AttemptPrimary(reply, order) ==
    /\ pc = "relay"
    /\ rot.relays # <<>>
    /\ rot.attempts = <<>>
    /\ order \in Shuffles(Range(rot.relays) \ {rot.relays[1]})
    /\ LET a == RelayAttempt(rot.relays[1], reply)
           attempts == Append(rot.attempts, a)
       IN  IF ~a.result.raised
           THEN /\ rot' = [rot EXCEPT !.attempts = attempts, !.result = Success(a)]
                /\ pc' = "relaydone"
           ELSE IF order = <<>>
           THEN /\ rot' = [rot EXCEPT !.attempts = attempts, !.shuffled = TRUE,
                                      !.result = Surface(attempts)]
                /\ pc' = "relaydone"
           ELSE /\ rot' = [rot EXCEPT !.attempts = attempts, !.shuffled = TRUE,
                                      !.remaining = order]
                /\ pc' = "relay"
    /\ UNCHANGED <<rev, endpoint, raw_symbol, symbol, asset_type, classified,
                   log, response, escaped, px, cache, hist, prev, wk>>

\* the next fallback relay in the shuffled order is tried
AttemptFallback(reply) ==
    /\ pc = "relay"
    /\ rot.remaining # <<>>
    /\ LET a == RelayAttempt(Head(rot.remaining), reply)
           attempts == Append(rot.attempts, a)
           rest == Tail(rot.remaining)
       IN  IF ~a.result.raised
           THEN /\ rot' = [rot EXCEPT !.attempts = attempts, !.result = Success(a)]
                /\ pc' = "relaydone"
           ELSE IF rest = <<>>
           THEN /\ rot' = [rot EXCEPT !.attempts = attempts, !.remaining = rest,
                                      !.result = Surface(attempts)]
                /\ pc' = "relaydone"
           ELSE /\ rot' = [rot EXCEPT !.attempts = attempts, !.remaining = rest]
                /\ pc' = "relay"
    /\ UNCHANGED <<rev, endpoint, raw_symbol, symbol, asset_type, classified,
                   log, response, escaped, px, cache, hist, prev, wk>>

\* the caller has the result
RelayReturn ==
    /\ pc = "relaydone"
    /\ pc' = "idle"
    /\ rot' = NoRotation
    /\ UNCHANGED <<rev, endpoint, raw_symbol, symbol, asset_type, classified,
                   log, response, escaped, px, cache, hist, prev, wk>>

InitRelay ==
    /\ InitCommon
    /\ rev = "proxy"
    /\ cache = <<>>

NextRelay ==
    \/ \E relays \in RelayConfigs : relayedGet(relays)
    \/ \E reply \in RelayReplies : AttemptDirect(reply)
    \/ \E reply \in RelayReplies, order \in RelayConfigs : AttemptPrimary(reply, order)
    \/ \E reply \in RelayReplies : AttemptFallback(reply)
    \/ RelayReturn

SpecRelay == InitRelay /\ [][NextRelay]_vars

Failed(a) ==
    \/ a.reply.transport = "error"
    \/ a.reply.status # 200
    \/ a.reply.body.kind # "json"

\* C15: the primary relay is attempted first; after a failure each other
\* relay is attempted at most once, in some order; the first success is
\* returned and nothing is attempted after it; when every relay fails (or,
\* with no relay configured, the direct call fails) the last error met is
\* surfaced.
C15_RelayRotation ==
    rot.active =>
        LET att == rot.attempts
            n == Len(att)
        IN  /\ (rot.relays # <<>> /\ n >= 1) => att[1].relay = rot.relays[1]
            /\ \A i \in 1..n :
                  att[i].relay \in (IF rot.relays = <<>> THEN {Direct}
                                    ELSE Range(rot.relays))
            /\ \A i, j \in 1..n : i # j => att[i].relay # att[j].relay
            /\ \A i \in 1..(n - 1) : Failed(att[i])
            /\ pc = "relaydone" =>
                  /\ n >= 1
                  /\ IF Failed(att[n])
                     THEN /\ rot.result.kind = "error"
                          /\ rot.result.error = att[n].result
                          /\ rot.result.error.raised
                          /\ rot.relays # <<>> =>
                                {att[i].relay : i \in 1..n} = Range(rot.relays)
                     ELSE /\ rot.result.kind = "ok"
                          /\ rot.result.value = att[n].reply.body.json

\* three relays: the primary and one fallback failed in different ways,
\* the last one answered
C15_Witness ==
    /\ rot.active
    /\ pc = "relaydone"
    /\ Len(rot.relays) = 3
    /\ Len(rot.attempts) = 3
    /\ rot.attempts[1].result = Raise("HTTPError")
    /\ rot.attempts[2].result = Raise("ConnectionError")
    /\ rot.result = [kind |-> "ok", value |-> 2]

-----------------------------------------------------------------------------
(* Properties of a single outbound call *)

\* the GETs sent to provider p during the current resolution, in order
GetsTo(p) == SelectSeq(log, LAMBDA a : a.provider = p)

\* the call to provider p is over
CallOver(p) ==
    /\ Attempted(p)
    /\ IF p = "yahoo" THEN pc \in {"stooq", "done"} ELSE pc = "done"

RateLimitedReply(a) == a.reply.transport = "ok" /\ a.reply.status = 429

OtherFailureStatus(a) ==
    a.reply.transport = "ok" /\ a.reply.status >= 400 /\ a.reply.status # 429

\* C16: an outbound call answered with the rate-limit status is retried,
\* up to three attempts, and reports RateLimited when the budget is used
\* up; a failure with any other status is surfaced after exactly one
\* attempt.
C16_RetryOnRateLimit ==
    \A p \in {"yahoo", "stooq"} :
        CallOver(p) =>
            LET gets == GetsTo(p)
                n == Len(gets)
            IN  /\ n <= 3
                /\ \A i \in 1..n :
                      RateLimitedReply(gets[i]) =>
                          \/ i < n
                          \/ (i = 3 /\ gets[i].outcome = "RateLimited")
                /\ \A i \in 1..n :
                      OtherFailureStatus(gets[i]) => (i = n /\ n = 1)

------------------------------------------------------------------------------
(* /proxy: status codes and frame *)

SupportedMethod(m) == upper(m) \in {<<"G","E","T">>, <<"P","O","S","T">>}

\* requests.get / requests.post raises: the URL is refused by the client or
\* the exchange with the destination breaks
TransportFails(c) == ~ClientAcceptsUrl(c.netloc) \/ c.up.transport = "error"

PassedBack(c) ==
    IF c.up.body.kind = "json"
    THEN c.body = [json |-> c.up.body.text]
    ELSE c.body = [status_code |-> c.up.status, content |-> c.up.body.text]

ProxyStatusContract(c) ==
    (c.called /\ check_whitelist_passes(c.netloc)) =>
        IF ~SupportedMethod(c.method)
        THEN c.status = 400 /\ c.outbound = {}
        ELSE /\ (c.status = 502) <=> TransportFails(c)
             /\ ~TransportFails(c) => (c.status = 200 /\ PassedBack(c))

\* C17: for a URL that passes the allow-list check, /proxy answers 502
\* exactly when the outbound call raises; a method other than GET or POST is
\* answered 400 with nothing sent; otherwise the upstream response is passed
\* back (JSON verbatim, else {status_code, content}) whatever its status, and
\* the call leaves the response cache as it was.
C17_ProxyStatusAndFrame ==
    [][(~px.called /\ px'.called) =>
          (ProxyStatusContract(px') /\ cache' = cache)]_vars

C17_Witness ==
    /\ px.called
    /\ check_whitelist_passes(px.netloc)
    /\ SupportedMethod(px.method)
    /\ ~TransportFails(px)
    /\ px.up.status = 404
    /\ px.up.body.kind = "text"
    /\ px.status = 200
    /\ px.body.status_code = 404
    /\ cache # <<>>

------------------------------------------------------------------------------
(* The response cache shared by concurrent request workers *)

NumWorkers == 2

Workers == 1..NumWorkers

Idle == [at |-> "idle"]

Fetching(u) == [at |-> "fetching", url |-> u]

InFlight == {w \in Workers : wk[w].at = "fetching"}

cache_store_unchecked(c, u, v) == CacheInsert(c, u, v)

\* lru_cache after the wrapped function returned: the key may have been
\* stored by another caller during the call, and then the cache is left as
\* it is
cache_store(c, u, v) == IF CacheHit(c, u) THEN c ELSE CacheInsert(c, u, v)

\* a worker's call finds the key: served from the cache
worker_hit(w, u) ==
    /\ wk[w].at = "idle"
    /\ Len(hist) + Cardinality(InFlight) < MaxOps
    /\ CacheHit(cache, u)
    /\ cache' = CacheTouch(cache, u)
    /\ hist' = Append(hist, Call(u, TRUE, FALSE, Return(CacheValue(cache, u)), {}))
    /\ UNCHANGED <<rev, pc, endpoint, raw_symbol, symbol, asset_type, classified,
                   log, response, escaped, px, prev, rot, wk>>

\* a worker's call does not find the key: the wrapped function starts,
\* and other workers run while it waits for the upstream
worker_miss(w, u) ==
    /\ wk[w].at = "idle"
    /\ Len(hist) + Cardinality(InFlight) < MaxOps
    /\ ~CacheHit(cache, u)
    /\ wk' = [wk EXCEPT ![w] = Fetching(u)]
    /\ UNCHANGED <<rev, pc, endpoint, raw_symbol, symbol, asset_type, classified,
                   log, response, escaped, px, cache, hist, prev, rot>>

\* the wrapped function of a worker finishes: an exception is passed on,
\* a result is stored unless the key has been stored meanwhile
worker_return(w, r) ==
    /\ wk[w].at = "fetching"
    /\ LET u == wk[w].url
           res == cached_fetch(rev, u, r)
       IN  IF res.raised
           THEN /\ cache' = cache
                /\ hist' = Append(hist, Call(u, FALSE, res.fetched, Raise(res.exc), {}))
           ELSE /\ cache' = cache_store(cache, u, res.value)
                /\ hist' = Append(hist, Call(u, FALSE, res.fetched, Return(res.value),
                                 CacheKeys(cache) \ CacheKeys(cache_store(cache, u, res.value))))
    /\ wk' = [wk EXCEPT ![w] = Idle]
    /\ UNCHANGED <<rev, pc, endpoint, raw_symbol, symbol, asset_type, classified,
                   log, response, escaped, px, prev, rot>>

InitWorkers ==
    /\ rev \in Revisions
    /\ pc = "idle"
    /\ endpoint = "none"
    /\ raw_symbol = <<>>
    /\ symbol = <<>>
    /\ asset_type = "none"
    /\ classified = FALSE
    /\ log = <<>>
    /\ response = NoResponse
    /\ escaped = "none"
    /\ px = NoProxyCall
    /\ hist = <<>>
    /\ prev = NoPrev
    /\ rot = NoRotation
    /\ cache \in {<<>>, WarmCache}
    /\ wk = [w \in Workers |-> Idle]

NextWorkers ==
    \/ \E w \in Workers, u \in CacheUrls : worker_hit(w, u)
    \/ \E w \in Workers, u \in CacheUrls : worker_miss(w, u)
    \/ \E w \in Workers, r \in CacheUpstreams : worker_return(w, r)

SpecWorkers == InitWorkers /\ [][NextWorkers]_vars

\* an entry of the cache the process started with
Preloaded(e) == e.url - 100 \in 1..maxsize /\ e = WarmEntry(e.url - 100)

\* the body was returned by a fetch made for this very URL
FetchedForKey(e) ==
    \E k \in 1..Len(hist) :
        /\ hist[k].url = e.url
        /\ ~hist[k].hit
        /\ hist[k].result = Return(e.body)

RecencyOrder(c) == [i \in 1..Len(c) |-> c[i].url]

\* C18: whatever the interleaving of the workers' cache calls, the cache
\* holds at most 256 entries, at most one entry per URL, only bodies fetched
\* for their own key, and its recency order lists every stored key exactly
\* once.
C18_ConcurrentCacheConsistent ==
    LET keys == CacheKeys(cache)
        order == RecencyOrder(cache)
    IN  /\ Len(cache) <= maxsize
        /\ Cardinality(keys) = Len(cache)
        /\ \A i \in 1..Len(cache) : Preloaded(cache[i]) \/ FetchedForKey(cache[i])
        /\ Len(order) = Cardinality(keys)
        /\ {order[i] : i \in 1..Len(order)} = keys

\* two workers missed the same URL at the same time on a full cache, and
\* both fetches succeeded
C18_Witness ==
    /\ Len(hist) >= 2
    /\ hist[1].url = hist[2].url
    /\ ~hist[1].hit /\ ~hist[2].hit
    /\ ~hist[1].result.raised /\ ~hist[2].result.raised
    /\ hist[1].result # hist[2].result
    /\ Len(cache) = maxsize
    /\ CacheValue(cache, hist[1].url) = hist[1].result.value

------------------------------------------------------------------------------
(* Failed fetches and the response cache *)

\* the step is a call of the cached helper
CallStep == Len(hist') = Len(hist) + 1

FailedCall(c) == ~c.hit /\ c.result.raised

\* a failed call leaves contents and recency order as they were, and an
\* entry appears only with a fetch that returned
FailureLeavesCache ==
    CallStep =>
        LET c == hist'[Len(hist')]
        IN  /\ FailedCall(c) => cache' = cache
            /\ (CacheKeys(cache') \ CacheKeys(cache) # {}) =>
                   (~c.hit /\ c.fetched /\ ~c.result.raised
                    /\ CacheKeys(cache') \ CacheKeys(cache) = {c.url})

\* call j is the next call for the URL of the failed call k
NextCallAfterFailure(k, j) ==
    /\ k < j
    /\ FailedCall(hist[k])
    /\ hist[j].url = hist[k].url
    /\ \A m \in (k + 1)..(j - 1) : hist[m].url # hist[k].url

\* the host check of server.py turns the URL away before anything is sent
TurnedAway(u) == rev = "server" /\ ~check_whitelist_passes(UrlNetloc(u))

C19_Original ==
    /\ [][FailureLeavesCache]_vars
    /\ [](\A k, j \in 1..Len(hist) :
            NextCallAfterFailure(k, j) => hist[j].fetched)

\* C19: only a fetch that returned creates an entry; a get whose fetch fails
\* leaves contents and recency order unchanged, and the next get for the
\* same URL runs the fetch again instead of replaying the failure: the host
\* check again and, unless the host check turns the URL away, a new
\* outbound request.
C19_FailureNotCached ==
    /\ [][FailureLeavesCache]_vars
    /\ [](\A k, j \in 1..Len(hist) :
            NextCallAfterFailure(k, j) =>
                /\ ~hist[j].hit
                /\ hist[j].fetched <=> ~TurnedAway(hist[j].url)
                /\ TurnedAway(hist[j].url) =>
                       hist[j].result = Raise("HTTPException400"))

\* on a full cache a transport or status failure is followed by a second
\* call for the URL, which goes out again and this time succeeds
C19_Witness ==
    /\ Len(hist) >= 2
    /\ NextCallAfterFailure(1, 2)
    /\ hist[1].fetched
    /\ hist[2].fetched
    /\ ~hist[2].result.raised
    /\ Len(cache) = maxsize
    /\ CacheHit(cache, hist[2].url)

------------------------------------------------------------------------------
(* Success bodies carry a price *)

PrimaryOnlyFields ==
    {"currency", "timestamps", "open", "high", "low", "close", "volume"}

\* the primary's reply parsed, but the parsed data has no regularMarketPrice
ParsedWithoutPrice(a) ==
    /\ a.provider = "yahoo"
    /\ LET res == IF rev = "server" THEN fetch_yahoo_chart(a.sym, a.reply)
                  ELSE fetch_yahoo_quote(a.sym, a.reply)
       IN  ~res.raised /\ res.value.regularMarketPrice = Null

\* C20: every success body of /price, /futures and /index has a non-null
\* price; a primary reply that parses but has no regularMarketPrice counts
\* as a primary failure: the secondary provider is attempted, and nothing of
\* the primary (source, metadata, OHLCV arrays) is in the body returned.
C20_SuccessHasPrice ==
    /\ response.kind = "ok" => response.price # Null
    /\ (Len(log) >= 1 /\ ParsedWithoutPrice(PrimaryAttempt)) =>
          /\ pc \in {"stooq", "done"}
          /\ Done =>
                /\ Len(log) = 2
                /\ SecondaryAttempt.provider = "stooq"
                /\ response.kind \in {"ok", "error"}
                /\ response.kind = "ok" => response.source = "stooq"
                /\ DOMAIN response \cap PrimaryOnlyFields = {}

\* server.py: the chart came back with currency and arrays but no price,
\* and Stooq then priced the symbol
C20_Witness ==
    /\ Done
    /\ rev = "server"
    /\ Len(log) = 2
    /\ ParsedWithoutPrice(PrimaryAttempt)
    /\ PrimaryAttempt.reply.body.series = FullSeries
    /\ SecondaryAttempt.outcome = "ok"
    /\ response.kind = "ok"
    /\ response.source = "stooq"
    /\ response.price # Null

====
